---- MODULE Spec2Model ----
(***************************************************************************)
(* The paper-trading dashboard of src/app.py as a state machine.           *)
(*                                                                         *)
(* One step of the machine is one run of the Streamlit script main():      *)
(* the widgets are read, the option-chain snapshots are refreshed when     *)
(* the 60-second window has elapsed, and, with paper trading switched on,  *)
(* the entry loop and the exit loop run over st.session_state.             *)
(*                                                                         *)
(* Conventions.  Python's None and the "-" placeholder are the empty       *)
(* tuple; a present value v is the 1-tuple <<v>>.  Prices and open         *)
(* interest are integers; a put-call ratio is a reduced fraction           *)
(* [num, den], with den = 0 standing for math.inf.  Wall-clock time is an  *)
(* integer number of seconds; the formatted timestamps (second             *)
(* resolution) are that number.  The display-only columns                  *)
(* "Suggested Option" and "Used PCR" of a trade-log entry, the VIX value   *)
(* and the simulated SMS are not part of the state.                        *)
(*                                                                         *)
(* Besides the session state the module has the frame of a call in         *)
(* progress (its arguments and position), the value a finished call        *)
(* returned, and the trade log as the dashboard last displayed it.  Spec   *)
(* and SpecLong run main() as one step, so no call is ever in progress     *)
(* there; SpecPure applies the pure functions to drawn arguments;         *)
(* SpecSteps runs the auto-trading section assignment by assignment; and   *)
(* SpecFetch runs one call of fetch_option_chain_from_api statement by     *)
(* statement.                                                              *)
(***************************************************************************)
EXTENDS Integers, Sequences, FiniteSets, TLC

VARIABLES
    trade_log,           \* st.session_state.trade_log: sequence of entries
    data_cache,          \* st.session_state.data_cache: symbol -> None | <<info>>
    last_update_time,    \* st.session_state.last_update_time
    last_logged_signal,  \* st.session_state.last_logged_signal: dict log_key -> last_update
    paper_trading_on,    \* the toggle as read by the latest run
    now,                 \* wall clock (seconds) at the latest run
    frame,               \* the call in progress, None between calls
    result,              \* what the last finished function call returned
    rendered             \* the trade log as the "Trade Log" table last showed it

vars == <<trade_log, data_cache, last_update_time, last_logged_signal,
          paper_trading_on, now, frame, result, rendered>>

----------------------------------------------------------------------------
(* Bounds of the model *)

MaxLot == 2
MaxTime == 122
MaxTimeLong == 183
MaxOI == 2
MaxRetries == 3

(* Program constants *)

RefreshWindow == 60

----------------------------------------------------------------------------
(* Values *)

None == <<>>
Some(x) == <<x>>

Symbols == <<"NIFTY", "BANKNIFTY">>
SymbolSet == {"NIFTY", "BANKNIFTY"}

Prices == {1, 2, 3}
LotSizes == 1..MaxLot
Strikes == {2}
CallOIValues == {1, 2}
PutOIValues == {1}
EmaChoices == {"BUY", "SELL"}
Deltas == {0, RefreshWindow + 1}
StartTime == RefreshWindow + 1

RECURSIVE GCD(_, _)
GCD(a, b) == IF b = 0 THEN a ELSE GCD(b, a % b)

Inf == [num |-> 1, den |-> 0]

\* mutant: without call open interest the ratio is 0
Ratio_ZeroWithoutCalls(pe, ce) ==
    IF ce # 0
    THEN LET g == GCD(pe, ce) IN [num |-> pe \div g, den |-> ce \div g]
    ELSE [num |-> 0, den |-> 1]

\* pe / ce if ce != 0 else math.inf
Ratio(pe, ce) ==
    IF ce # 0
    THEN LET g == GCD(pe, ce) IN [num |-> pe \div g, den |-> ce \div g]
    ELSE Inf

\* pcr >= 1, pcr <= 1 on the fraction representation
PcrGeq1(p) == p.den = 0 \/ p.num >= p.den
PcrLeq1(p) == p.den # 0 /\ p.num <= p.den

----------------------------------------------------------------------------
(* Option-chain data as returned by the API.  A strike record is           *)
(* [strikePrice, expiryDate, CE, PE], CE and PE being the openInterest of  *)
(* the call and the put leg (0 when the leg is absent).  The parsed JSON   *)
(* is [records |-> None] when it has no 'records' key, and otherwise       *)
(* [records |-> <<[expiryDates, underlyingValue, data]>>].                 *)

\* sum of item[side].openInterest over the items, all of them or only those
\* of expiry `expiry`
RECURSIVE SumOI(_, _, _, _)
SumOI(items, side, near_only, expiry) ==
    IF items = <<>> THEN 0
    ELSE LET item == Head(items)
             oi == IF side = "PE" THEN item.PE ELSE item.CE
             counted == (~near_only) \/ item.expiryDate = expiry
         IN (IF counted THEN oi ELSE 0) + SumOI(Tail(items), side, near_only, expiry)

\* compute_oi_pcr_and_underlying(data); raised = TRUE is the ValueError
compute_oi_pcr_and_underlying(data) ==
    IF data = None \/ data[1].records = None
    THEN [raised |-> FALSE, underlying |-> None, pcr_total |-> None,
          pcr_near |-> None, expiry |-> None]
    ELSE LET records == data[1].records[1]
             expiry_dates == records.expiryDates
         IN IF expiry_dates = <<>>
            THEN [raised |-> TRUE, underlying |-> None, pcr_total |-> None,
                  pcr_near |-> None, expiry |-> None]
            ELSE LET current_expiry == expiry_dates[1]
                     pe_total_oi == SumOI(records.data, "PE", FALSE, current_expiry)
                     ce_total_oi == SumOI(records.data, "CE", FALSE, current_expiry)
                     pe_near_oi == SumOI(records.data, "PE", TRUE, current_expiry)
                     ce_near_oi == SumOI(records.data, "CE", TRUE, current_expiry)
                 IN [raised |-> FALSE,
                     underlying |-> Some(records.underlyingValue),
                     pcr_total |-> Some(Ratio(pe_total_oi, ce_total_oi)),
                     pcr_near |-> Some(Ratio(pe_near_oi, ce_near_oi)),
                     expiry |-> Some(current_expiry)]

\* the loop of find_oi_based_sr_levels from item i on, acc holding
\* max_ce_oi, resistance_level, max_pe_oi, support_level
RECURSIVE SRScan(_, _, _, _)
SRScan(items, i, current_expiry, acc) ==
    IF i > Len(items) THEN acc
    ELSE LET item == items[i]
             a1 == IF item.expiryDate = current_expiry /\ item.CE > acc.max_ce_oi
                   THEN [acc EXCEPT !.max_ce_oi = item.CE,
                                    !.resistance_level = Some(item.strikePrice)]
                   ELSE acc
             a2 == IF item.expiryDate = current_expiry /\ item.PE > a1.max_pe_oi
                   THEN [a1 EXCEPT !.max_pe_oi = item.PE,
                                   !.support_level = Some(item.strikePrice)]
                   ELSE a1
         IN SRScan(items, i + 1, current_expiry, a2)

\* find_oi_based_sr_levels(data), for data whose expiryDates is not empty
find_oi_based_sr_levels(data) ==
    IF data = None \/ data[1].records = None
    THEN [resistance |-> None, support |-> None]
    ELSE LET records == data[1].records[1]
             acc == SRScan(records.data, 1, records.expiryDates[1],
                           [max_ce_oi |-> 0, resistance_level |-> None,
                            max_pe_oi |-> 0, support_level |-> None])
         IN [resistance |-> acc.resistance_level, support |-> acc.support_level]

\* mutant: the trend is not consulted
determine_signal_NoTrend(pcr, trend, ema_signal) ==
    IF ema_signal = "BUY" /\ PcrGeq1(pcr)
    THEN [signal |-> "BUY", suggested_option |-> Some("CALL")]
    ELSE IF ema_signal = "SELL" /\ PcrLeq1(pcr)
    THEN [signal |-> "SELL", suggested_option |-> Some("PUT")]
    ELSE [signal |-> "SIDEWAYS", suggested_option |-> None]

\* determine_signal(pcr, trend, ema_signal)
determine_signal(pcr, trend, ema_signal) ==
    IF trend = "BULLISH" /\ ema_signal = "BUY" /\ PcrGeq1(pcr)
    THEN [signal |-> "BUY", suggested_option |-> Some("CALL")]
    ELSE IF trend = "BEARISH" /\ ema_signal = "SELL" /\ PcrLeq1(pcr)
    THEN [signal |-> "SELL", suggested_option |-> Some("PUT")]
    ELSE [signal |-> "SIDEWAYS", suggested_option |-> None]

----------------------------------------------------------------------------
(* The refresh section of main() *)

\* what fetch_option_chain_from_api can hand back: an exception, or parsed JSON
FetchRaised == [raised |-> TRUE, data |-> None]
Returned(json) == [raised |-> FALSE, data |-> Some(json)]

GoodJsons ==
    {[records |-> Some([expiryDates |-> <<1, 2>>,
                        underlyingValue |-> p,
                        data |-> <<[strikePrice |-> k, expiryDate |-> 1,
                                    CE |-> c, PE |-> q]>>])] :
        p \in Prices, k \in Strikes, c \in CallOIValues, q \in PutOIValues}

BadJsons ==
    {[records |-> None],
     [records |-> Some([expiryDates |-> <<>>, underlyingValue |-> 1, data |-> <<>>])]}

FetchOutcomes == {FetchRaised} \cup {Returned(j) : j \in GoodJsons \cup BadJsons}

\* mutant: the trend and the signal are always taken from the total PCR
SymbolSignal_TotalPcrOnly(raw_data, ema_signal_choice, use_near_pcr) ==
    LET info == compute_oi_pcr_and_underlying(raw_data)
        pcr_used == info.pcr_total
    IN IF info.raised \/ pcr_used = None
       THEN None
       ELSE LET trend == IF PcrGeq1(pcr_used[1]) THEN "BULLISH" ELSE "BEARISH"
                sig == determine_signal(pcr_used[1], trend, ema_signal_choice)
            IN Some([underlying |-> info.underlying[1],
                     pcr_total |-> info.pcr_total[1],
                     pcr_near |-> info.pcr_near[1],
                     trend |-> trend,
                     signal |-> sig.signal,
                     suggested_side |-> sig.suggested_option,
                     oi_levels |-> find_oi_based_sr_levels(raw_data)])

\* one symbol's block of the refresh section up to the cache assignment: the
\* values it derives, or None when the block raises (the ValueError of
\* compute_oi_pcr_and_underlying, or the TypeError of comparing a None pcr
\* with 1)
SymbolSignal(raw_data, ema_signal_choice, use_near_pcr) ==
    LET info == compute_oi_pcr_and_underlying(raw_data)
        pcr_used == IF use_near_pcr THEN info.pcr_near ELSE info.pcr_total
    IN IF info.raised \/ pcr_used = None
       THEN None
       ELSE LET trend == IF PcrGeq1(pcr_used[1]) THEN "BULLISH" ELSE "BEARISH"
                sig == determine_signal(pcr_used[1], trend, ema_signal_choice)
            IN Some([underlying |-> info.underlying[1],
                     pcr_total |-> info.pcr_total[1],
                     pcr_near |-> info.pcr_near[1],
                     trend |-> trend,
                     signal |-> sig.signal,
                     suggested_side |-> sig.suggested_option,
                     oi_levels |-> find_oi_based_sr_levels(raw_data)])

\* the dict stored in st.session_state.data_cache[symbol] at time t
CacheEntry(derived, t) ==
    [underlying |-> derived.underlying,
     pcr_total |-> derived.pcr_total,
     pcr_near |-> derived.pcr_near,
     last_update |-> t,
     trend |-> derived.trend,
     signal |-> derived.signal,
     suggested_side |-> derived.suggested_side,
     oi_levels |-> derived.oi_levels]

NoData == [s \in SymbolSet |-> None]

\* the try block on the two fetch outcomes: what it derives for each symbol,
\* or NoData when anything in it raises (the except branch empties both
\* caches)
TryBlock(nifty, banknifty, ema_signal_choice, use_near_pcr) ==
    LET n == IF nifty.raised THEN None
             ELSE SymbolSignal(nifty.data, ema_signal_choice, use_near_pcr)
        b == IF banknifty.raised THEN None
             ELSE SymbolSignal(banknifty.data, ema_signal_choice, use_near_pcr)
    IN IF n = None \/ b = None
       THEN NoData
       ELSE [s \in SymbolSet |-> IF s = "NIFTY" THEN n ELSE b]

\* the outcomes of the try block over all fetch outcomes, per widget choice
TryOutcomes ==
    [e \in EmaChoices, u \in BOOLEAN |->
        {TryBlock(n, b, e, u) : n \in FetchOutcomes, b \in FetchOutcomes}]

\* session state after the refresh section at time t, given the try block's
\* outcome: on an exception the refresh time is kept
RefreshCache(outcome, t, old_time) ==
    IF outcome = NoData
    THEN [data_cache |-> NoData, last_update_time |-> old_time]
    ELSE [data_cache |-> [s \in SymbolSet |-> Some(CacheEntry(outcome[s][1], t))],
          last_update_time |-> t]

----------------------------------------------------------------------------
(* The auto-trading section of main() *)

Truthy(x) == x # None /\ x[1] # 0

\* the S&R breach check on a cache entry
breach_signal(current_info) ==
    LET oi == current_info.oi_levels
        current_price == current_info.underlying
    IN IF Truthy(oi.resistance) /\ Truthy(oi.support)
       THEN IF current_price > oi.resistance[1] THEN "BREACH_UP"
            ELSE IF current_price < oi.support[1] THEN "BREACH_DOWN"
            ELSE "SIDEWAYS"
       ELSE "SIDEWAYS"

\* mutant: a breach overrides the engine's signal whatever that signal is
FinalSignal_BreachOverrides(current_info) ==
    LET breach == breach_signal(current_info)
    IN IF breach # "SIDEWAYS"
       THEN [final_signal |-> breach, trade_trigger |-> "Breach"]
       ELSE [final_signal |-> current_info.signal, trade_trigger |-> "Strategy"]

\* final_signal and trade_trigger of the entry loop
FinalSignal(current_info) ==
    LET primary_signal == current_info.signal
        breach == breach_signal(current_info)
    IN IF primary_signal = "SIDEWAYS" /\ breach # "SIDEWAYS"
       THEN [final_signal |-> breach, trade_trigger |-> "Breach"]
       ELSE [final_signal |-> primary_signal, trade_trigger |-> "Strategy"]

\* mutant: an active trade of either symbol counts
HasActiveTrade_AnySymbol(log, symbol) ==
    \E i \in 1..Len(log) : log[i].Status = "Active"

\* mutant: the Status literal is misspelt, so no entry ever counts as active
HasActiveTrade_WrongLiteral(log, symbol) ==
    \E i \in 1..Len(log) : log[i].Symbol = symbol /\ log[i].Status = "ACTIVE"

HasActiveTrade(log, symbol) ==
    \E i \in 1..Len(log) : log[i].Symbol = symbol /\ log[i].Status = "Active"

EmptyDict == [k \in {} |-> None]
DictGet(d, k) == IF k \in DOMAIN d THEN Some(d[k]) ELSE None
DictPut(d, k, v) == [x \in (DOMAIN d) \cup {k} |-> IF x = k THEN v ELSE d[x]]

\* mutant: the entry is stored with the default lot size 1
NewEntry_DefaultLot(symbol, current_info, fs, lot) ==
    [Timestamp |-> current_info.last_update,
     Symbol |-> symbol,
     Signal |-> fs.final_signal,
     Entry_Price |-> current_info.underlying,
     Exit_Time |-> None,
     Current_Price |-> current_info.underlying,
     PnL |-> 0,
     Final_PnL |-> None,
     Lot_Size |-> 1,
     Status |-> "Active",
     Trigger |-> fs.trade_trigger]

\* the log_entry dict built by the entry loop
NewEntry(symbol, current_info, fs, lot) ==
    [Timestamp |-> current_info.last_update,
     Symbol |-> symbol,
     Signal |-> fs.final_signal,
     Entry_Price |-> current_info.underlying,
     Exit_Time |-> None,
     Current_Price |-> current_info.underlying,
     PnL |-> 0,
     Final_PnL |-> None,
     Lot_Size |-> lot,
     Status |-> "Active",
     Trigger |-> fs.trade_trigger]

\* mutant: the dedup record is never consulted
AlreadyLogged_Never(logged, log_key, last_update) == FALSE

\* whether the log_key of (symbol, signal, snapshot) has been recorded
AlreadyLogged(logged, log_key, last_update) ==
    DictGet(logged, log_key) = Some(last_update)

\* one iteration of the entry loop; st = [log, logged]
OpenFor(st, symbol_choice, cache, lot) ==
    IF cache[symbol_choice] = None THEN st
    ELSE LET current_info == cache[symbol_choice][1]
             fs == FinalSignal(current_info)
             log_key == <<symbol_choice, fs.final_signal, current_info.last_update>>
         IN IF ~HasActiveTrade(st.log, symbol_choice)
               /\ fs.final_signal # "SIDEWAYS"
               /\ ~AlreadyLogged(st.logged, log_key, current_info.last_update)
            THEN [log |-> Append(st.log, NewEntry(symbol_choice, current_info, fs, lot)),
                  logged |-> DictPut(st.logged, log_key, current_info.last_update)]
            ELSE st

\* the entry loop over ['NIFTY', 'BANKNIFTY']
OpenLoop(log, logged, cache, lot) ==
    OpenFor(OpenFor([log |-> log, logged |-> logged], Symbols[1], cache, lot),
            Symbols[2], cache, lot)

\* mutant: only a SIDEWAYS signal closes a trade
IsExitSignal_OnlySideways(current_signal, entry_signal) ==
    current_signal = "SIDEWAYS"

\* is_exit_signal
IsExitSignal(current_signal, entry_signal) ==
    \/ current_signal = "SIDEWAYS"
    \/ current_signal = "SELL" /\ entry_signal = "BUY"
    \/ current_signal = "BUY" /\ entry_signal = "SELL"
    \/ current_signal = "BREACH_UP" /\ entry_signal \in {"BREACH_DOWN", "SELL"}
    \/ current_signal = "BREACH_DOWN" /\ entry_signal \in {"BREACH_UP", "BUY"}

\* mutant: the gain is computed as for a bullish entry whatever the signal
PnlCalc_Unsigned(entry, current_price) ==
    (current_price - entry.Entry_Price) * entry.Lot_Size

\* the signed price move times the entry's lot size
PnlCalc(entry, current_price) ==
    IF entry.Signal \in {"BUY", "BREACH_UP"}
    THEN (current_price - entry.Entry_Price) * entry.Lot_Size
    ELSE (entry.Entry_Price - current_price) * entry.Lot_Size

\* the signal the exit loop compares an entry's signal with
ExitSignalOf(current_info) == current_info.signal

\* mutant: the close branch leaves the live P&L as it stands
CloseEntry_KeepsLive(entry, current_info, t) ==
    [entry EXCEPT !.Status = "Closed",
                  !.Exit_Time = Some(t),
                  !.Current_Price = current_info.underlying,
                  !.Final_PnL = Some(PnlCalc(entry, current_info.underlying))]

\* the close branch of the exit loop
CloseEntry(entry, current_info, t) ==
    [entry EXCEPT !.Status = "Closed",
                  !.Exit_Time = Some(t),
                  !.Current_Price = current_info.underlying,
                  !.PnL = 0,
                  !.Final_PnL = Some(PnlCalc(entry, current_info.underlying))]

\* mutant: the live P&L ignores the entry's lot size
UpdateEntry_NoLot(entry, current_info) ==
    [entry EXCEPT !.Current_Price = current_info.underlying,
                  !.PnL = IF entry.Signal \in {"BUY", "BREACH_UP"}
                          THEN current_info.underlying - entry.Entry_Price
                          ELSE entry.Entry_Price - current_info.underlying]

\* the live-update branch of the exit loop
UpdateEntry(entry, current_info) ==
    [entry EXCEPT !.Current_Price = current_info.underlying,
                  !.PnL = PnlCalc(entry, current_info.underlying)]

\* mutant: the Status test is missing, so Closed entries are processed too
ExitEntry_NoStatusCheck(entry, cache, t) ==
    IF cache[entry.Symbol] = None THEN entry
    ELSE LET current_info == cache[entry.Symbol][1]
         IN IF IsExitSignal(ExitSignalOf(current_info), entry.Signal)
            THEN CloseEntry(entry, current_info, t)
            ELSE UpdateEntry(entry, current_info)

\* mutant: a symbol without a snapshot counts as SIDEWAYS, so its trade is
\* closed at the last known price
ExitEntry_NoDataCloses(entry, cache, t) ==
    IF entry.Status # "Active" THEN entry
    ELSE IF cache[entry.Symbol] = None
    THEN [entry EXCEPT !.Status = "Closed",
                       !.Exit_Time = Some(t),
                       !.PnL = 0,
                       !.Final_PnL = Some(PnlCalc(entry, entry.Current_Price))]
    ELSE LET current_info == cache[entry.Symbol][1]
         IN IF IsExitSignal(ExitSignalOf(current_info), entry.Signal)
            THEN CloseEntry(entry, current_info, t)
            ELSE UpdateEntry(entry, current_info)

\* the body of the exit loop for one entry
ExitEntry(entry, cache, t) ==
    IF entry.Status # "Active" THEN entry
    ELSE IF cache[entry.Symbol] = None THEN entry
    ELSE LET current_info == cache[entry.Symbol][1]
         IN IF IsExitSignal(ExitSignalOf(current_info), entry.Signal)
            THEN CloseEntry(entry, current_info, t)
            ELSE UpdateEntry(entry, current_info)

\* the exit loop over a copy of the trade log
ExitLoop(log, cache, t) == [i \in 1..Len(log) |-> ExitEntry(log[i], cache, t)]

\* mutant: the trading section runs whatever the toggle says
TradingPass_IgnoresToggle(log, logged, cache, on, lot, t) ==
    LET opened == OpenLoop(log, logged, cache, lot)
    IN [log |-> ExitLoop(opened.log, cache, t), logged |-> opened.logged]

\* the whole auto-trading section: [log, logged] after it
TradingPass(log, logged, cache, on, lot, t) ==
    IF on
    THEN LET opened == OpenLoop(log, logged, cache, lot)
         IN [log |-> ExitLoop(opened.log, cache, t), logged |-> opened.logged]
    ELSE [log |-> log, logged |-> logged]

----------------------------------------------------------------------------
(* The state machine *)

Init ==
    /\ trade_log = <<>>
    /\ data_cache = NoData
    /\ last_update_time = 0
    /\ last_logged_signal = EmptyDict
    /\ paper_trading_on = FALSE
    /\ now = StartTime
    /\ frame = None
    /\ result = None
    /\ rendered = <<>>

\* whether the 60-second window has elapsed at time t
RefreshDue(t, last) == t - last > RefreshWindow

\* the session state a refreshing run of main() at time t leaves, its try
\* block having ended in `outcome`
AfterRefresh(outcome, on, lot, t) ==
    LET r == RefreshCache(outcome, t, last_update_time)
        p == TradingPass(trade_log, last_logged_signal, r.data_cache, on, lot, t)
    IN [data_cache |-> r.data_cache,
        last_update_time |-> r.last_update_time,
        log |-> p.log,
        logged |-> p.logged]

\* the state after one run of main() at time t that refreshes the snapshots,
\* the try block ending in one of `outcomes`
MainWithRefresh(outcomes, on, lot, t) ==
    /\ RefreshDue(t, last_update_time)
    /\ \E outcome \in outcomes :
           LET a == AfterRefresh(outcome, on, lot, t)
           IN /\ data_cache' = a.data_cache
              /\ last_update_time' = a.last_update_time
              /\ trade_log' = a.log
              /\ last_logged_signal' = a.logged

\* the state after one run of main() at time t inside the refresh window
MainCached(on, lot, t) ==
    /\ ~RefreshDue(t, last_update_time)
    /\ LET p == TradingPass(trade_log, last_logged_signal, data_cache, on, lot, t)
       IN /\ trade_log' = p.log
          /\ last_logged_signal' = p.logged
    /\ UNCHANGED <<data_cache, last_update_time>>

\* the script starts: the clock has moved on by d, the toggle is read
Begin(on, d, max_time) ==
    /\ now + d <= max_time
    /\ now' = now + d
    /\ paper_trading_on' = on

\* the "Trade Log" section at the end of main(): the table shows the log
Render ==
    /\ rendered' = trade_log'
    /\ UNCHANGED <<frame, result>>

\* a run of main() more than 60 seconds after the last successful refresh:
\* the widgets are read, the snapshots are fetched, the trading section runs
main_refresh ==
    \E on \in BOOLEAN, lot \in LotSizes, d \in Deltas :
      /\ Begin(on, d, MaxTime)
      /\ \E ema_signal_choice \in EmaChoices, use_near_pcr \in BOOLEAN :
            MainWithRefresh(TryOutcomes[ema_signal_choice, use_near_pcr],
                            on, lot, now + d)
      /\ Render

\* a run of main() within 60 seconds of the last successful refresh: the
\* trading section runs on the cached snapshots
main_cached ==
    \E on \in BOOLEAN, lot \in LotSizes, d \in Deltas :
      /\ Begin(on, d, MaxTime)
      /\ MainCached(on, lot, now + d)
      /\ Render

Next == main_refresh \/ main_cached

Spec == Init /\ [][Next]_vars

----------------------------------------------------------------------------
(* The same machine over three refreshes.  An entry can show a gain or a   *)
(* loss only on the snapshot after the one it was opened on, and can be    *)
(* closed with that gain or loss standing only on a third one; to keep     *)
(* three refreshes explorable the API here answers both symbols alike.     *)

\* the outcomes of the try block when both fetches return the same answer
LockstepOutcomes ==
    [e \in EmaChoices, u \in BOOLEAN |->
        {TryBlock(n, n, e, u) : n \in FetchOutcomes}]

main_refresh_long ==
    \E on \in BOOLEAN, lot \in LotSizes, d \in Deltas :
      /\ Begin(on, d, MaxTimeLong)
      /\ \E ema_signal_choice \in EmaChoices, use_near_pcr \in BOOLEAN :
            MainWithRefresh(LockstepOutcomes[ema_signal_choice, use_near_pcr],
                            on, lot, now + d)
      /\ Render

main_cached_long ==
    \E on \in BOOLEAN, lot \in LotSizes, d \in Deltas :
      /\ Begin(on, d, MaxTimeLong)
      /\ MainCached(on, lot, now + d)
      /\ Render

NextLong == main_refresh_long \/ main_cached_long

SpecLong == Init /\ [][NextLong]_vars

----------------------------------------------------------------------------
(* The pure functions on their own.  A frame holds the arguments of one    *)
(* call, drawn from bounded sets; the step of the function stores what it  *)
(* returns in result.  The session state plays no part.  An argument a     *)
(* function does not take is None in its frame.                            *)

Trends == {"BULLISH", "BEARISH"}

\* put-call ratios of open-interest sums up to 2 * MaxOI
PcrValues == {Ratio(pe, ce) : pe \in 0..(2 * MaxOI), ce \in 0..(2 * MaxOI)}

\* strike records: two strikes, the nearest expiry 1 and a later expiry 2
ExpiryDates == <<1, 2>>
PureStrikes == {1, 2}
PureItems ==
    [strikePrice : PureStrikes, expiryDate : {1, 2}, CE : 0..MaxOI, PE : 0..MaxOI]
PureItemSeqs ==
    {<<>>} \cup {<<a>> : a \in PureItems} \cup {<<a, b>> : a \in PureItems, b \in PureItems}

\* the chain of the S/R example: strikes 100, 110, 120 at the nearest expiry
ExampleJson ==
    [records |-> Some([expiryDates |-> ExpiryDates,
                       underlyingValue |-> 2,
                       data |-> <<[strikePrice |-> 100, expiryDate |-> 1, CE |-> 50, PE |-> 10],
                                  [strikePrice |-> 110, expiryDate |-> 1, CE |-> 90, PE |-> 40],
                                  [strikePrice |-> 120, expiryDate |-> 1, CE |-> 30, PE |-> 70]>>])]

\* well-formed parsed option chains
PureJsons ==
    {[records |-> Some([expiryDates |-> ExpiryDates, underlyingValue |-> p, data |-> d])] :
        p \in Prices, d \in PureItemSeqs} \cup {ExampleJson}

\* the cache entries the refresh section can store
PureInfos ==
    {CacheEntry(SymbolSignal(Some(j), e, u)[1], StartTime) :
        j \in PureJsons, e \in EmaChoices, u \in BOOLEAN}

\* the strategy configuration of section 6 of the specification as far as it
\* selects and feeds the scalp mode; numbers with a decimal are held times 10
SwingConfig == [mode |-> "swing", scalp |-> None]
ScalpConfig(x) == [mode |-> "scalp", scalp |-> Some(x)]
ScalpInputs ==
    {[emaFast |-> Some(10), emaMid |-> Some(8), emaSlow |-> Some(5),
      disparity |-> Some(10), prevDisparity |-> Some(5),
      volume |-> Some(150), avgVolume |-> Some(100), volMultiplier |-> Some(12)],
     [emaFast |-> Some(5), emaMid |-> Some(8), emaSlow |-> Some(10),
      disparity |-> Some(5), prevDisparity |-> Some(10),
      volume |-> Some(150), avgVolume |-> Some(100), volMultiplier |-> Some(12)],
     [emaFast |-> Some(10), emaMid |-> Some(8), emaSlow |-> Some(5),
      disparity |-> Some(10), prevDisparity |-> Some(5),
      volume |-> None, avgVolume |-> Some(100), volMultiplier |-> Some(12)]}
Configs == {SwingConfig} \cup {ScalpConfig(x) : x \in ScalpInputs}

NoArgs ==
    [fn |-> "", data |-> None, pcr |-> None, trend |-> None, ema_signal |-> None,
     use_near_pcr |-> None, info |-> None, config |-> None]

\* determine_signal(pcr, trend, ema_signal), called under a configuration
DetermineSignalCalls ==
    {[NoArgs EXCEPT !.fn = "determine_signal", !.pcr = Some(p), !.trend = Some(tr),
                    !.ema_signal = Some(e), !.config = Some(c)] :
        p \in PcrValues, tr \in Trends, e \in EmaChoices, c \in Configs}

\* compute_oi_pcr_and_underlying(data)
ComputeCalls ==
    {[NoArgs EXCEPT !.fn = "compute_oi_pcr_and_underlying", !.data = Some(j)] :
        j \in PureJsons \cup BadJsons}

\* find_oi_based_sr_levels(data), called after compute_oi_pcr_and_underlying
\* returned for the same data
FindCalls ==
    {[NoArgs EXCEPT !.fn = "find_oi_based_sr_levels", !.data = Some(j)] : j \in PureJsons}

\* one symbol's block of the refresh section
SymbolBlockCalls ==
    {[NoArgs EXCEPT !.fn = "symbol_block", !.data = Some(j), !.ema_signal = Some(e),
                    !.use_near_pcr = Some(u)] :
        j \in PureJsons \cup BadJsons, e \in EmaChoices, u \in BOOLEAN}

\* the S&R breach check of the entry loop on a cached snapshot
BreachCalls ==
    {[NoArgs EXCEPT !.fn = "breach_check", !.info = Some(i)] : i \in PureInfos}

\* the frame holds one of these calls
Calling(calls) == \E c \in calls : frame = Some(c)

InitPure ==
    /\ trade_log = <<>>
    /\ data_cache = NoData
    /\ last_update_time = 0
    /\ last_logged_signal = EmptyDict
    /\ paper_trading_on = FALSE
    /\ now = StartTime
    /\ \/ Calling(DetermineSignalCalls)
       \/ Calling(ComputeCalls)
       \/ Calling(FindCalls)
       \/ Calling(SymbolBlockCalls)
       \/ Calling(BreachCalls)
    /\ result = None
    /\ rendered = <<>>

\* the frame is a call of fn that has not returned yet
Called(fn) == frame[1].fn = fn /\ result = None

\* the call returns value
Return(value) ==
    /\ result' = Some(value)
    /\ UNCHANGED <<trade_log, data_cache, last_update_time, last_logged_signal,
                   paper_trading_on, now, frame, rendered>>

\* determine_signal has no parameter for a mode or for the scalp indicators:
\* the configuration of the call does not reach it
call_determine_signal ==
    /\ Called("determine_signal")
    /\ Return(determine_signal(frame[1].pcr[1], frame[1].trend[1],
                               frame[1].ema_signal[1]))

call_compute_oi_pcr_and_underlying ==
    /\ Called("compute_oi_pcr_and_underlying")
    /\ Return(compute_oi_pcr_and_underlying(frame[1].data))

call_find_oi_based_sr_levels ==
    /\ Called("find_oi_based_sr_levels")
    /\ Return(find_oi_based_sr_levels(frame[1].data))

call_symbol_block ==
    /\ Called("symbol_block")
    /\ Return(SymbolSignal(frame[1].data, frame[1].ema_signal[1],
                           frame[1].use_near_pcr[1]))

call_breach_check ==
    /\ Called("breach_check")
    /\ Return(breach_signal(frame[1].info[1]))

NextPure ==
    \/ call_determine_signal
    \/ call_compute_oi_pcr_and_underlying
    \/ call_find_oi_based_sr_levels
    \/ call_symbol_block
    \/ call_breach_check

SpecPure == InitPure /\ [][NextPure]_vars

----------------------------------------------------------------------------
(* main() statement by statement.  The run starts as in Spec (the widgets  *)
(* are read and the snapshots refreshed when due); the entry loop then     *)
(* takes one step per symbol and the exit loop one step per assignment to  *)
(* an entry, and the "Trade Log" table is drawn last.  The frame holds the *)
(* position (pc, the loop index i, the assignment k within a branch), the  *)
(* lot size read from the widget, and the trade log and dedup record the   *)
(* run started with, kept for the properties.  The API answers both        *)
(* symbols alike.                                                          *)

\* the assignments of the close branch and of the live-update branch, in
\* the order of the code
CloseOrder == <<"Status", "Exit_Time", "Current_Price", "PnL", "Final_PnL">>
UpdateOrder == <<"Current_Price", "PnL">>

MainFrame(pc, i, k, lot, log0, logged0) ==
    Some([fn |-> "main", pc |-> pc, i |-> i, k |-> k, lot |-> lot,
          log0 |-> log0, logged0 |-> logged0])

\* after the refresh section: into the auto-trading section, or past it
AfterRefreshSection(on, lot) ==
    /\ frame' = MainFrame(IF on THEN "entry" ELSE "render", 1, 1, lot,
                          trade_log, last_logged_signal)
    /\ UNCHANGED <<trade_log, last_logged_signal, result, rendered>>

\* main() starts more than 60 seconds after the last successful refresh
steps_begin_refresh ==
    \E on \in BOOLEAN, lot \in LotSizes, d \in Deltas :
      /\ frame = None
      /\ Begin(on, d, MaxTime)
      /\ RefreshDue(now + d, last_update_time)
      /\ \E ema_signal_choice \in EmaChoices, use_near_pcr \in BOOLEAN :
            \E outcome \in LockstepOutcomes[ema_signal_choice, use_near_pcr] :
               LET r == RefreshCache(outcome, now + d, last_update_time)
               IN /\ data_cache' = r.data_cache
                  /\ last_update_time' = r.last_update_time
      /\ AfterRefreshSection(on, lot)

\* main() starts within 60 seconds of the last successful refresh
steps_begin_cached ==
    \E on \in BOOLEAN, lot \in LotSizes, d \in Deltas :
      /\ frame = None
      /\ Begin(on, d, MaxTime)
      /\ ~RefreshDue(now + d, last_update_time)
      /\ UNCHANGED <<data_cache, last_update_time>>
      /\ AfterRefreshSection(on, lot)

\* the run is at position pc
At(pc) == frame # None /\ frame[1].fn = "main" /\ frame[1].pc = pc

Goto(pc, i, k) == frame' = Some([frame[1] EXCEPT !.pc = pc, !.i = i, !.k = k])

\* one iteration of the entry loop
steps_entry ==
    /\ At("entry")
    /\ LET st == OpenFor([log |-> trade_log, logged |-> last_logged_signal],
                         Symbols[frame[1].i], data_cache, frame[1].lot)
       IN /\ trade_log' = st.log
          /\ last_logged_signal' = st.logged
    /\ IF frame[1].i < Len(Symbols)
       THEN Goto("entry", frame[1].i + 1, 1)
       ELSE Goto("exit", 1, 1)
    /\ UNCHANGED <<data_cache, last_update_time, paper_trading_on, now, result, rendered>>

\* the exit loop is at an entry that is not Active or has no snapshot, or is
\* past the last entry
steps_exit_skip ==
    /\ At("exit")
    /\ IF frame[1].i > Len(trade_log)
       THEN Goto("render", 1, 1)
       ELSE /\ \/ trade_log[frame[1].i].Status # "Active"
               \/ data_cache[trade_log[frame[1].i].Symbol] = None
            /\ Goto("exit", frame[1].i + 1, 1)
    /\ UNCHANGED <<trade_log, data_cache, last_update_time, last_logged_signal,
                   paper_trading_on, now, result, rendered>>

\* the exit loop is at an Active entry with a snapshot: is_exit_signal is
\* computed and the branch taken
steps_exit_test ==
    /\ At("exit")
    /\ frame[1].i <= Len(trade_log)
    /\ LET entry == trade_log[frame[1].i]
       IN /\ entry.Status = "Active"
          /\ data_cache[entry.Symbol] # None
          /\ IF IsExitSignal(ExitSignalOf(data_cache[entry.Symbol][1]), entry.Signal)
             THEN Goto("close", frame[1].i, 1)
             ELSE Goto("update", frame[1].i, 1)
    /\ UNCHANGED <<trade_log, data_cache, last_update_time, last_logged_signal,
                   paper_trading_on, now, result, rendered>>

\* assignment k of a branch stores field order[k] of the entry: the value the
\* branch gives that field
Assign(pc, order, target) ==
    /\ At(pc)
    /\ LET i == frame[1].i
           k == frame[1].k
       IN /\ trade_log' = [trade_log EXCEPT ![i][order[k]] = target[order[k]]]
          /\ IF k < Len(order) THEN Goto(pc, i, k + 1) ELSE Goto("exit", i + 1, 1)
    /\ UNCHANGED <<data_cache, last_update_time, last_logged_signal,
                   paper_trading_on, now, result, rendered>>

\* one assignment of the close branch
steps_close ==
    /\ At("close")
    /\ Assign("close", CloseOrder,
              CloseEntry(trade_log[frame[1].i],
                         data_cache[trade_log[frame[1].i].Symbol][1], now))

\* one assignment of the live-update branch
steps_update ==
    /\ At("update")
    /\ Assign("update", UpdateOrder,
              UpdateEntry(trade_log[frame[1].i],
                          data_cache[trade_log[frame[1].i].Symbol][1]))

\* mutant: the table is drawn from another thread, whatever main() is doing
ReaderRuns_Anytime(f) == f # None

\* the table is drawn when main() has reached the "Trade Log" section
ReaderRuns(f) == f # None /\ f[1].pc = "render"

\* the "Trade Log" section: the table shows the log, and the run is over
steps_render ==
    /\ ReaderRuns(frame)
    /\ rendered' = trade_log
    /\ frame' = None
    /\ UNCHANGED <<trade_log, data_cache, last_update_time, last_logged_signal,
                   paper_trading_on, now, result>>

NextSteps ==
    \/ steps_begin_refresh
    \/ steps_begin_cached
    \/ steps_entry
    \/ steps_exit_skip
    \/ steps_exit_test
    \/ steps_close
    \/ steps_update
    \/ steps_render

SpecSteps == Init /\ [][NextSteps]_vars

----------------------------------------------------------------------------
(* fetch_option_chain_from_api, statement by statement.  The frame holds   *)
(* the call's arguments and locals: retries, backoff_factor, the loop      *)
(* index i, the position pc and the status code of the HTTPError being     *)
(* handled.  It also keeps what the call has done to the outside: calls,   *)
(* the sequence of s.get on the API ("get"), init_session and time.sleep   *)
(* calls made, responses, the outcome of each s.get, and slept, the        *)
(* seconds passed to time.sleep in total.  result is what the call hands   *)
(* back: FetchRaised, Returned(json), or ReturnedNone.                     *)

\* the final 'return None'
ReturnedNone == [raised |-> FALSE, data |-> None]

\* status codes raise_for_status turns into an HTTPError
ErrorStatuses == {401, 500}

\* 2 ** i
RECURSIVE Pow2(_)
Pow2(i) == IF i = 0 THEN 1 ELSE 2 * Pow2(i - 1)

FetchFrame(symbol, retries, backoff_factor) ==
    [fn |-> "fetch_option_chain_from_api", symbol |-> symbol,
     retries |-> retries, backoff_factor |-> backoff_factor,
     i |-> 0, pc |-> "for", status |-> 0,
     calls |-> <<>>, responses |-> <<>>, slept |-> 0]

\* the call starts with the session state of a fresh script
InitFetch ==
    /\ trade_log = <<>>
    /\ data_cache = NoData
    /\ last_update_time = 0
    /\ last_logged_signal = EmptyDict
    /\ paper_trading_on = FALSE
    /\ now = StartTime
    /\ \E symbol \in SymbolSet, retries \in 0..MaxRetries :
          frame = Some(FetchFrame(symbol, retries, 1))
    /\ result = None
    /\ rendered = <<>>

InFetch(pc) == frame # None /\ result = None /\ frame[1].pc = pc

\* the call goes on inside the function
FetchGoto(f) ==
    /\ frame' = Some(f)
    /\ UNCHANGED <<trade_log, data_cache, last_update_time, last_logged_signal,
                   paper_trading_on, now, result, rendered>>

\* the call returns or raises
FetchEnds(f, outcome) ==
    /\ frame' = Some([f EXCEPT !.pc = "done"])
    /\ result' = Some(outcome)
    /\ UNCHANGED <<trade_log, data_cache, last_update_time, last_logged_signal,
                   paper_trading_on, now, rendered>>

\* the frame after s.get(api_url, ...) with the given outcome
AfterGet(f, response) ==
    [f EXCEPT !.calls = Append(@, "get"), !.responses = Append(@, response)]

\* 'for i in range(retries)': the body runs while i < retries, and the
\* function returns None when the range is exhausted
fetch_for ==
    /\ InFetch("for")
    /\ LET f == frame[1]
       IN IF f.i < f.retries
          THEN FetchGoto([f EXCEPT !.pc = "try"])
          ELSE FetchEnds(f, ReturnedNone)

\* the try body runs through: status 2xx, the body parses, data is returned
fetch_get_ok ==
    /\ InFetch("try")
    /\ \E json \in GoodJsons \cup BadJsons :
          FetchEnds(AfterGet(frame[1], 200), Returned(json))

\* raise_for_status raises HTTPError
fetch_get_http_error ==
    /\ InFetch("try")
    /\ \E status \in ErrorStatuses :
          FetchGoto([AfterGet(frame[1], status) EXCEPT !.pc = "except_http",
                                                       !.status = status])

\* s.get raises another RequestException (timeout, connection error), or the
\* body is not JSON: the function raises
fetch_get_request_error ==
    /\ InFetch("try")
    /\ FetchEnds(AfterGet(frame[1], 0), FetchRaised)

\* mutant: a 401 is retried on the final attempt too
ShouldRetry_FinalAttemptToo(status_code, i, retries) ==
    status_code = 401 /\ i < retries

\* the condition of the HTTPError handler
ShouldRetry(status_code, i, retries) ==
    status_code = 401 /\ i < retries - 1

\* except HTTPError: retry after a 401 that is not the last attempt, raise
\* otherwise
fetch_except_http ==
    /\ InFetch("except_http")
    /\ LET f == frame[1]
       IN IF ShouldRetry(f.status, f.i, f.retries)
          THEN FetchGoto([f EXCEPT !.pc = "init_session"])
          ELSE FetchEnds(f, FetchRaised)

\* init_session(): one s.get on the home page; a RequestException is logged
\* and swallowed
fetch_init_session ==
    /\ InFetch("init_session")
    /\ FetchGoto([frame[1] EXCEPT !.calls = Append(@, "init_session"),
                                  !.pc = "sleep"])

\* time.sleep(backoff_factor * (2 ** i)), then the next iteration
fetch_sleep ==
    /\ InFetch("sleep")
    /\ LET f == frame[1]
       IN FetchGoto([f EXCEPT !.calls = Append(@, "sleep"),
                              !.slept = @ + f.backoff_factor * Pow2(f.i),
                              !.i = @ + 1,
                              !.pc = "for"])

NextFetch ==
    \/ fetch_for
    \/ fetch_get_ok
    \/ fetch_get_http_error
    \/ fetch_get_request_error
    \/ fetch_except_http
    \/ fetch_init_session
    \/ fetch_sleep

\* every statement of the call completes: s.get is bounded by timeout=10 and
\* time.sleep by its argument
SpecFetch == InitFetch /\ [][NextFetch]_vars /\ WF_vars(NextFetch)

----------------------------------------------------------------------------
(* Vocabulary of the properties *)

Entries == 1..Len(trade_log)
IsActive(e) == e.Status = "Active"
IsClosed(e) == e.Status = "Closed"
Available(s) == data_cache[s] # None
Info(s) == data_cache[s][1]
Bullish(sig) == sig \in {"BUY", "BREACH_UP"}

----------------------------------------------------------------------------
(* C1: in every reachable state each symbol has at most one trade-log      *)
(* entry whose Status is Active.                                           *)
C1_OneActivePerSymbol ==
    \A s \in SymbolSet :
        Cardinality({i \in Entries : trade_log[i].Symbol = s /\ IsActive(trade_log[i])}) <= 1

\* a symbol that has an Active entry next to an earlier Closed one
C1_Witness ==
    \E i, j \in Entries :
        /\ i < j
        /\ trade_log[i].Symbol = trade_log[j].Symbol
        /\ IsClosed(trade_log[i])
        /\ IsActive(trade_log[j])

(* C2: an entry's Final P&L is set iff its Status is Closed; every Closed  *)
(* entry has live P&L 0; every Active entry has Final P&L unset.           *)
C2_FinalPnlIffClosed ==
    \A i \in Entries :
        LET e == trade_log[i]
        IN /\ e.Status \in {"Active", "Closed"}
           /\ (e.Final_PnL # None) <=> IsClosed(e)
           /\ IsClosed(e) => e.PnL = 0
           /\ IsActive(e) => e.Final_PnL = None

\* an entry closed two snapshots after the one it was opened on (it went
\* through a live update in between), with a non-zero Final P&L
C2_Witness ==
    \E i \in Entries :
        /\ IsClosed(trade_log[i])
        /\ trade_log[i].Exit_Time[1] - trade_log[i].Timestamp > 2 * RefreshWindow
        /\ trade_log[i].Final_PnL # Some(0)

\* the close rule as the specification words it: the final signal is
\* SIDEWAYS or of opposite polarity to the entry's signal
Opposite(final_signal, entry_signal) ==
    {final_signal, entry_signal} \in
        {{"BUY", "SELL"}, {"BREACH_UP", "BREACH_DOWN"},
         {"BREACH_UP", "SELL"}, {"BREACH_DOWN", "BUY"}}

ClosingSignal(final_signal, entry_signal) ==
    final_signal = "SIDEWAYS" \/ Opposite(final_signal, entry_signal)

\* the final signal of a symbol's cached snapshot
FinalOf(s) == FinalSignal(Info(s)).final_signal

(* C3: after a ledger pass (a run with paper trading on) over an available *)
(* snapshot, no entry of the symbol is left Active while the symbol's      *)
(* final signal is SIDEWAYS or of opposite polarity to the entry's signal: *)
(* every such entry that was Active has been Closed by the pass.           *)
C3_ClosedOnClosingSignal ==
    paper_trading_on =>
        \A i \in Entries :
            LET e == trade_log[i]
            IN (Available(e.Symbol) /\ ClosingSignal(FinalOf(e.Symbol), e.Signal))
                  => IsClosed(e)

\* a BUY entry opened on an earlier snapshot and closed by the pass of this
\* run, the symbol's final signal now being SELL
C3_Witness ==
    /\ paper_trading_on
    /\ \E i \in Entries :
          LET e == trade_log[i]
          IN /\ e.Signal = "BUY" /\ IsClosed(e) /\ e.Exit_Time = Some(now)
             /\ Available(e.Symbol)
             /\ e.Timestamp < Info(e.Symbol).last_update
             /\ FinalOf(e.Symbol) = "SELL"

(* C4: an entry that is Active when a ledger pass starts is still Active   *)
(* when it ends, whenever the symbol's final signal is neither SIDEWAYS    *)
(* nor of opposite polarity to the entry's signal.                         *)
C4_OnlyListedConditionsClose ==
    [][paper_trading_on' =>
          \A i \in Entries :
              LET e == trade_log[i]
                  c == data_cache'[e.Symbol]
              IN (IsActive(e) /\ c # None
                    /\ ~ClosingSignal(FinalSignal(c[1]).final_signal, e.Signal))
                    => IsActive(trade_log'[i])]_vars

(* C5: the final signal is the engine's signal whenever that is BUY or     *)
(* SELL, and the breach signal only when the engine's signal is SIDEWAYS,  *)
(* the trigger being Breach exactly in the substituted case; every entry   *)
(* with Signal BUY or SELL has Trigger Strategy and every entry with       *)
(* Signal BREACH_UP or BREACH_DOWN has Trigger Breach.                     *)
C5_BreachOnlyWhenSideways ==
    /\ \A s \in SymbolSet :
          Available(s) =>
            LET info == Info(s)
                fs == FinalSignal(info)
                substituted == info.signal = "SIDEWAYS" /\ fs.final_signal # "SIDEWAYS"
            IN /\ info.signal \in {"BUY", "SELL", "SIDEWAYS"}
               /\ info.signal \in {"BUY", "SELL"} => fs.final_signal = info.signal
               /\ fs.final_signal # info.signal =>
                     /\ info.signal = "SIDEWAYS"
                     /\ fs.final_signal = breach_signal(info)
                     /\ fs.final_signal \in {"BREACH_UP", "BREACH_DOWN"}
               /\ fs.trade_trigger = (IF substituted THEN "Breach" ELSE "Strategy")
    /\ \A i \in Entries :
          LET e == trade_log[i]
          IN /\ e.Signal \in {"BUY", "SELL", "BREACH_UP", "BREACH_DOWN"}
             /\ e.Signal \in {"BUY", "SELL"} => e.Trigger = "Strategy"
             /\ e.Signal \in {"BREACH_UP", "BREACH_DOWN"} => e.Trigger = "Breach"

\* a Strategy entry opened while the price had breached a level (the breach
\* did not override the engine's BUY), beside a Breach entry
C5_Witness ==
    \E i, j \in Entries :
        /\ trade_log[i].Signal = "BUY" /\ trade_log[i].Trigger = "Strategy"
        /\ Available(trade_log[i].Symbol)
        /\ Info(trade_log[i].Symbol).last_update = trade_log[i].Timestamp
        /\ breach_signal(Info(trade_log[i].Symbol)) = "BREACH_DOWN"
        /\ trade_log[j].Signal = "BREACH_UP" /\ trade_log[j].Trigger = "Breach"

\* the signed price move from the entry price to price, times the lot size
SignedMove(e, price) ==
    IF Bullish(e.Signal)
    THEN (price - e.Entry_Price) * e.Lot_Size
    ELSE (e.Entry_Price - price) * e.Lot_Size

\* the entry of symbol s with signal sig and snapshot timestamp ts
SameKey(e, s, sig, ts) == e.Symbol = s /\ e.Signal = sig /\ e.Timestamp = ts

(* C6: the entry loop of a pass appends an entry for a symbol with an      *)
(* available snapshot only if the symbol has no Active entry and the final *)
(* signal is not SIDEWAYS; when both hold and no entry of that symbol,     *)
(* signal and timestamp is in the ledger, it appends exactly one entry,    *)
(* with Entry Price = Current Price = the snapshot's underlying, live P&L  *)
(* 0, Final P&L unset, the configured lot size and Status Active.  Stated  *)
(* of the entry loop run from any reachable state with any lot size.       *)
C6_OpenRule ==
    \A lot \in LotSizes :
        LET opened == OpenLoop(trade_log, last_logged_signal, data_cache, lot).log
            n == Len(trade_log)
        IN /\ Len(opened) >= n
           /\ SubSeq(opened, 1, n) = trade_log
           /\ \A s \in SymbolSet :
                Available(s) =>
                  LET new == {k \in (n + 1)..Len(opened) : opened[k].Symbol = s}
                      noActive == ~\E i \in Entries :
                                     trade_log[i].Symbol = s /\ IsActive(trade_log[i])
                      fresh == ~\E i \in Entries :
                                  SameKey(trade_log[i], s, FinalOf(s), Info(s).last_update)
                  IN /\ Cardinality(new) <= 1
                     /\ new # {} => (noActive /\ FinalOf(s) # "SIDEWAYS")
                     /\ (noActive /\ FinalOf(s) # "SIDEWAYS" /\ fresh) =>
                           \E k \in new :
                              opened[k] =
                                [Timestamp |-> Info(s).last_update,
                                 Symbol |-> s,
                                 Signal |-> FinalOf(s),
                                 Entry_Price |-> Info(s).underlying,
                                 Exit_Time |-> None,
                                 Current_Price |-> Info(s).underlying,
                                 PnL |-> 0,
                                 Final_PnL |-> None,
                                 Lot_Size |-> lot,
                                 Status |-> "Active",
                                 Trigger |-> FinalSignal(Info(s)).trade_trigger]

\* a pass has just opened an entry with lot size 2 on the cached snapshot for
\* a symbol whose earlier entry is Closed
C6_Witness ==
    /\ paper_trading_on
    /\ \E i, j \in Entries :
          LET e == trade_log[j]
          IN /\ i < j /\ trade_log[i].Symbol = e.Symbol /\ IsClosed(trade_log[i])
             /\ IsActive(e) /\ e.Lot_Size = 2
             /\ Available(e.Symbol)
             /\ e.Timestamp = Info(e.Symbol).last_update
             /\ e.Entry_Price = Info(e.Symbol).underlying

(* C7: the ledger never holds two entries with the same symbol, signal and *)
(* snapshot timestamp, however often a snapshot is evaluated and even      *)
(* after the entry opened for it has been closed, and never two Active     *)
(* entries of one symbol.                                                  *)
C7_NoDuplicateKey ==
    \A i, j \in Entries :
        i # j =>
            /\ ~SameKey(trade_log[i], trade_log[j].Symbol, trade_log[j].Signal,
                        trade_log[j].Timestamp)
            /\ trade_log[i].Symbol = trade_log[j].Symbol
                   => ~(IsActive(trade_log[i]) /\ IsActive(trade_log[j]))

\* the entry opened for the cached snapshot is already Closed, the symbol has
\* no Active entry and the snapshot's final signal is still the entry's: only
\* the dedup record keeps a pass from opening it again
C7_Witness ==
    /\ paper_trading_on
    /\ \E i \in Entries :
          LET e == trade_log[i]
          IN /\ IsClosed(e)
             /\ Available(e.Symbol)
             /\ SameKey(e, e.Symbol, FinalOf(e.Symbol), Info(e.Symbol).last_update)
             /\ ~\E j \in Entries :
                    trade_log[j].Symbol = e.Symbol /\ IsActive(trade_log[j])

(* C8: right after a ledger pass over an available snapshot, every Active  *)
(* entry of the symbol has Current Price = the snapshot's underlying and   *)
(* live P&L = (Current - Entry) x Lot Size for BUY/BREACH_UP and           *)
(* (Entry - Current) x Lot Size for SELL/BREACH_DOWN, with the entry's own *)
(* lot size.                                                               *)
C8_LivePnl ==
    paper_trading_on =>
        \A i \in Entries :
            LET e == trade_log[i]
            IN (IsActive(e) /\ Available(e.Symbol)) =>
                  /\ e.Current_Price = Info(e.Symbol).underlying
                  /\ e.PnL = SignedMove(e, e.Current_Price)

\* an Active SELL entry of lot size 2, opened on an earlier snapshot, showing
\* a gain after the pass
C8_Witness ==
    /\ paper_trading_on
    /\ \E i \in Entries :
          LET e == trade_log[i]
          IN /\ IsActive(e) /\ e.Signal = "SELL" /\ e.Lot_Size = 2
             /\ Available(e.Symbol)
             /\ e.Timestamp < Info(e.Symbol).last_update
             /\ e.PnL = 4

(* C9: in the step that closes an entry, its Final P&L becomes             *)
(* (exit - Entry) x Lot Size for BUY/BREACH_UP and (Entry - exit) x Lot    *)
(* Size for SELL/BREACH_DOWN, exit being the underlying of the snapshot    *)
(* the pass ran on; its live P&L becomes 0, its Exit Time is stamped and   *)
(* its Status becomes Closed.                                              *)
C9_FinalPnlAtExitPrice ==
    [][\A i \in 1..Len(trade_log') :
          LET e == trade_log'[i]
          IN (IsClosed(e) /\ (i > Len(trade_log) \/ IsActive(trade_log[i]))) =>
                /\ data_cache'[e.Symbol] # None
                /\ e.Final_PnL = Some(SignedMove(e, data_cache'[e.Symbol][1].underlying))
                /\ e.Current_Price = data_cache'[e.Symbol][1].underlying
                /\ e.PnL = 0
                /\ e.Exit_Time = Some(now')
                /\ i <= Len(trade_log) =>
                      /\ e.Entry_Price = trade_log[i].Entry_Price
                      /\ e.Lot_Size = trade_log[i].Lot_Size
                      /\ e.Signal = trade_log[i].Signal]_vars

\* a BUY entry of lot size 2 entered at 1 and closed at 3 on a SELL signal,
\* Final P&L +4
C9_Witness ==
    \E i \in Entries :
        LET e == trade_log[i]
        IN /\ IsClosed(e) /\ e.Signal = "BUY" /\ e.Lot_Size = 2
           /\ e.Entry_Price = 1 /\ e.Current_Price = 3
           /\ e.Final_PnL = Some(4)
           /\ e.Exit_Time = Some(now)
           /\ Available(e.Symbol) /\ Info(e.Symbol).signal = "SELL"

(* C10: a Closed entry never changes again (Status, Final P&L, Exit Time,  *)
(* Current Price, live P&L) and never becomes Active; no entry is removed  *)
(* or replaced: the ledger only grows by appending at the end.             *)
C10_ClosedIsFrozen ==
    [][/\ Len(trade_log') >= Len(trade_log)
       /\ \A i \in Entries :
             /\ trade_log'[i].Timestamp = trade_log[i].Timestamp
             /\ trade_log'[i].Symbol = trade_log[i].Symbol
             /\ trade_log'[i].Signal = trade_log[i].Signal
             /\ trade_log'[i].Entry_Price = trade_log[i].Entry_Price
             /\ trade_log'[i].Lot_Size = trade_log[i].Lot_Size
             /\ trade_log'[i].Trigger = trade_log[i].Trigger
             /\ IsClosed(trade_log[i]) => trade_log'[i] = trade_log[i]]_vars

\* an entry closed in an earlier run has come through a later pass that ran
\* on a snapshot with another price
C10_Witness ==
    /\ paper_trading_on
    /\ \E i \in Entries :
          LET e == trade_log[i]
          IN /\ IsClosed(e) /\ e.Exit_Time # None /\ e.Exit_Time[1] < now
             /\ Available(e.Symbol)
             /\ Info(e.Symbol).last_update = now
             /\ e.Current_Price # Info(e.Symbol).underlying

\* the indices of the entries of symbol s in a log
EntriesOf(log, s) == {i \in 1..Len(log) : log[i].Symbol = s}

\* the dedup keys of symbol s in a dedup record
KeysOf(logged, s) == {k \in DOMAIN logged : k[1] = s}

(* C11: in a run that leaves a symbol without a snapshot (its cache is     *)
(* empty: the fetch failed or the data was malformed), the ledger pass     *)
(* opens, updates and closes nothing for that symbol: the log has no new   *)
(* entry of the symbol, every entry of the symbol is as it was (Current    *)
(* Price, live P&L and Status included) and no dedup key of the symbol is  *)
(* recorded.                                                               *)
C11_NoSnapshotNoChange ==
    [][\A s \in SymbolSet :
          data_cache'[s] = None =>
              /\ EntriesOf(trade_log', s) = EntriesOf(trade_log, s)
              /\ \A i \in EntriesOf(trade_log, s) : trade_log'[i] = trade_log[i]
              /\ KeysOf(last_logged_signal', s) = KeysOf(last_logged_signal, s)]_vars

\* a pass has just run without snapshots, two refresh windows after an entry
\* was opened: the entry is still Active and still shows the price and the
\* gain or loss of the snapshot in between
C11_Witness ==
    /\ paper_trading_on
    /\ \E i \in Entries :
          LET e == trade_log[i]
          IN /\ IsActive(e)
             /\ ~Available(e.Symbol)
             /\ now - e.Timestamp > 2 * RefreshWindow
             /\ e.Current_Price # e.Entry_Price /\ e.PnL # 0

\* whether a symbol's snapshot is obtainable from a fetch outcome: the fetch
\* returned and the symbol's block derives its values from the data
Obtainable(raw, e, u) == ~raw.raised /\ SymbolSignal(raw.data, e, u) # None

\* the entries of symbol s in a log, in order
RECURSIVE OfSymbol(_, _)
OfSymbol(log, s) ==
    IF log = <<>> THEN <<>>
    ELSE IF Head(log).Symbol = s
    THEN <<Head(log)>> \o OfSymbol(Tail(log), s)
    ELSE OfSymbol(Tail(log), s)

(* C12: errors are local to one symbol.  Whenever a run refreshes and one  *)
(* symbol's fetch or processing fails while the other symbol's snapshot is *)
(* obtainable, the other symbol's snapshot is cached and its ledger        *)
(* entries are opened, updated and closed as a pass over that snapshot     *)
(* does, and the entries of the failed symbol are unaltered.  Stated of    *)
(* the refreshing run from any reachable state, over all fetch outcomes    *)
(* and widget settings.                                                    *)
C12_ErrorsAreLocal ==
    \A d \in Deltas, on \in BOOLEAN, lot \in LotSizes,
       e \in EmaChoices, u \in BOOLEAN, n \in FetchOutcomes, b \in FetchOutcomes :
        LET t == now + d
            raw == [s \in SymbolSet |-> IF s = "NIFTY" THEN n ELSE b]
            after == AfterRefresh(TryBlock(n, b, e, u), on, lot, t)
        IN RefreshDue(t, last_update_time) =>
             \A failed, other \in SymbolSet :
                (failed # other /\ ~Obtainable(raw[failed], e, u)
                                /\ Obtainable(raw[other], e, u)) =>
                    LET snapshot == Some(CacheEntry(SymbolSignal(raw[other].data, e, u)[1], t))
                        alone == [s \in SymbolSet |-> IF s = other THEN snapshot ELSE None]
                        expected == TradingPass(trade_log, last_logged_signal, alone,
                                                on, lot, t).log
                    IN /\ after.data_cache[other] = snapshot
                       /\ OfSymbol(after.log, other) = OfSymbol(expected, other)
                       /\ OfSymbol(after.log, failed) = OfSymbol(trade_log, failed)

\* the call in the frame, whether it is a call of fn that has returned, and
\* the value it returned
Call == frame[1]
HasReturned(fn) == frame # None /\ Call.fn = fn /\ result # None
Value == result[1]

\* the session state is as it was before any run
SessionUntouched ==
    /\ trade_log = <<>>
    /\ data_cache = NoData
    /\ last_logged_signal = EmptyDict
    /\ last_update_time = 0

\* a ratio num/den against the integer 1 (den = 0 is +infinity)
AtLeastOne(p) == p.den = 0 \/ p.num >= p.den
AtMostOne(p) == p.den > 0 /\ p.num <= p.den

(* C13: determine_signal(pcr, trend, emaSignal) returns (BUY, CALL)        *)
(* exactly when trend is BULLISH, emaSignal is BUY and pcr >= 1, (SELL,    *)
(* PUT) exactly when trend is BEARISH, emaSignal is SELL and pcr <= 1, and *)
(* (SIDEWAYS, null) for every other input; it never pairs BUY with PUT or  *)
(* SELL with CALL, and it leaves the session state alone.                  *)
C13_SwingDecision ==
    HasReturned("determine_signal") =>
        LET pcr == Call.pcr[1]
            buy == Call.trend = Some("BULLISH") /\ Call.ema_signal = Some("BUY")
                      /\ AtLeastOne(pcr)
            sell == Call.trend = Some("BEARISH") /\ Call.ema_signal = Some("SELL")
                      /\ AtMostOne(pcr)
        IN /\ buy <=> Value = [signal |-> "BUY", suggested_option |-> Some("CALL")]
           /\ sell <=> Value = [signal |-> "SELL", suggested_option |-> Some("PUT")]
           /\ (~buy /\ ~sell) <=>
                 Value = [signal |-> "SIDEWAYS", suggested_option |-> None]
           /\ ~(Value.signal = "BUY" /\ Value.suggested_option = Some("PUT"))
           /\ ~(Value.signal = "SELL" /\ Value.suggested_option = Some("CALL"))
           /\ SessionUntouched

\* a trend/EMA mismatch with a PCR that would back the EMA signal: BEARISH,
\* BUY, pcr = 2 returned SIDEWAYS
C13_Witness ==
    /\ HasReturned("determine_signal")
    /\ Call.trend = Some("BEARISH") /\ Call.ema_signal = Some("BUY")
    /\ Call.pcr = Some([num |-> 2, den |-> 1])
    /\ Value.signal = "SIDEWAYS" /\ Value.suggested_option = None

\* the sum of the open interest of one side over the records at indices S
RECURSIVE SumAt(_, _, _)
SumAt(items, side, S) ==
    IF S = {} THEN 0
    ELSE LET i == CHOOSE x \in S : TRUE
         IN (IF side = "PE" THEN items[i].PE ELSE items[i].CE)
               + SumAt(items, side, S \ {i})

\* v is the quotient puts / calls, +infinity when calls = 0
IsQuotient(v, puts, calls) ==
    IF calls = 0 THEN v.den = 0
    ELSE v.den > 0 /\ v.num * calls = puts * v.den

\* the indices of the records of the nearest expiry
NearIndices(records) ==
    {i \in 1..Len(records.data) : records.data[i].expiryDate = records.expiryDates[1]}

(* C14: for every snapshot with expiry dates, compute_oi_pcr_and_underlying *)
(* returns pcr_total = (sum of put OI over all records) / (sum of call OI  *)
(* over all records) and pcr_near = the same ratio over the records of the *)
(* first expiry; a ratio whose call sum is 0 is +infinity (also when the   *)
(* put sum is 0), nothing is raised, and the comparison pcr >= 1 then      *)
(* holds: determine_signal answers BUY to BULLISH and BUY with it.         *)
C14_PcrIsPutsOverCalls ==
    (HasReturned("compute_oi_pcr_and_underlying")
        /\ Call.data[1].records # None
        /\ Call.data[1].records[1].expiryDates # <<>>) =>
        LET records == Call.data[1].records[1]
            all == 1..Len(records.data)
            near == NearIndices(records)
            ratios == <<[v |-> Value.pcr_total, calls |-> SumAt(records.data, "CE", all),
                         puts |-> SumAt(records.data, "PE", all)],
                        [v |-> Value.pcr_near, calls |-> SumAt(records.data, "CE", near),
                         puts |-> SumAt(records.data, "PE", near)]>>
        IN /\ ~Value.raised
           /\ Value.underlying = Some(records.underlyingValue)
           /\ \A k \in 1..2 :
                 /\ ratios[k].v # None
                 /\ IsQuotient(ratios[k].v[1], ratios[k].puts, ratios[k].calls)
                 /\ ratios[k].calls = 0 =>
                       /\ ratios[k].v = Some(Inf)
                       /\ determine_signal(ratios[k].v[1], "BULLISH", "BUY").signal = "BUY"

\* a chain whose nearest expiry has neither call nor put open interest while
\* a later expiry has both: pcr_near is +infinity and pcr_total is 1/2
C14_Witness ==
    /\ HasReturned("compute_oi_pcr_and_underlying")
    /\ Call.data[1].records # None
    /\ Len(Call.data[1].records[1].data) = 2
    /\ NearIndices(Call.data[1].records[1]) # {}
    /\ SumAt(Call.data[1].records[1].data, "PE", NearIndices(Call.data[1].records[1])) = 0
    /\ Value.pcr_near = Some(Inf)
    /\ Value.pcr_total = Some([num |-> 1, den |-> 2])

\* the open interest of one side of a strike record
OIOf(item, side) == IF side = "PE" THEN item.PE ELSE item.CE

\* among the records at indices S, the first in iteration order that has the
\* maximum open interest of the side
FirstMax(items, side, S) ==
    CHOOSE i \in S :
        /\ \A j \in S : OIOf(items[j], side) <= OIOf(items[i], side)
        /\ \A j \in S : j < i => OIOf(items[j], side) < OIOf(items[i], side)

(* C15: for every snapshot with at least one strike record at the nearest  *)
(* expiry, find_oi_based_sr_levels returns as resistance the strike of the *)
(* record with the maximum call open interest and as support the strike of *)
(* the record with the maximum put open interest among the nearest-expiry  *)
(* records, the first record in iteration order winning on ties, the tie   *)
(* where all open interest is 0 included.                                  *)
C15_LevelsAtMaxOI ==
    (HasReturned("find_oi_based_sr_levels")
        /\ NearIndices(Call.data[1].records[1]) # {}) =>
        LET records == Call.data[1].records[1]
            near == NearIndices(records)
        IN /\ Value.resistance =
                 Some(records.data[FirstMax(records.data, "CE", near)].strikePrice)
           /\ Value.support =
                 Some(records.data[FirstMax(records.data, "PE", near)].strikePrice)

(* C16: the breach signal computed for a cached snapshot is BREACH_UP when *)
(* the underlying is strictly above the resistance level, BREACH_DOWN when *)
(* it is strictly below the support level, and SIDEWAYS otherwise (also    *)
(* when the price equals a level); each level counts when it is non-null,  *)
(* whether or not the other level is available.                            *)
C16_BreachAgainstEachLevel ==
    HasReturned("breach_check") =>
        LET info == Call.info[1]
            resistance == info.oi_levels.resistance
            support == info.oi_levels.support
            above == resistance # None /\ info.underlying > resistance[1]
            below == support # None /\ info.underlying < support[1]
        IN Value = (IF above THEN "BREACH_UP"
                    ELSE IF below THEN "BREACH_DOWN"
                    ELSE "SIDEWAYS")

\* an entry as a whole pass leaves it: Closed with Final P&L and Exit Time
\* set and live P&L zeroed, or Active with neither set
Whole(e) ==
    \/ /\ e.Status = "Closed"
       /\ e.Final_PnL # None /\ e.Exit_Time # None /\ e.PnL = 0
    \/ /\ e.Status = "Active"
       /\ e.Final_PnL = None /\ e.Exit_Time = None

(* C17: the trade log as the dashboard shows it never has an entry flagged *)
(* Closed whose Final P&L is unset or whose live P&L is not zeroed, and    *)
(* what the "Trade Log" section reads is the log as one whole entry and    *)
(* exit pass over the cached snapshots leaves it, from the log the run     *)
(* started with: the reader sees no partially applied pass.                *)
C17_ReaderSeesWholePass ==
    /\ \A i \in 1..Len(rendered) : Whole(rendered[i])
    /\ At("render") =>
          LET pass == TradingPass(frame[1].log0, frame[1].logged0, data_cache,
                                  paper_trading_on, frame[1].lot, now)
          IN trade_log = pass.log /\ last_logged_signal = pass.logged

\* the exit loop is inside the close branch: the entry is flagged Closed and
\* its Final P&L is not set yet, while the table still shows it Active with
\* the gain of the previous pass
C17_Witness ==
    /\ At("close")
    /\ \E i \in Entries :
          /\ i <= Len(rendered)
          /\ trade_log[i].Status = "Closed" /\ trade_log[i].Final_PnL = None
          /\ rendered[i].Status = "Active"

\* the numeric scalp inputs that are absent
MissingFields(x) == {f \in DOMAIN x : x[f] = None}

\* lo <= pcr <= hi, the limits given times 100
PcrWithin(p, lo, hi) ==
    p.den > 0 /\ p.num * 100 >= lo * p.den /\ p.num * 100 <= hi * p.den

\* the scalp-mode decision of section 4.1 of the specification
ScalpDecision(pcr, trend, ema_signal, x) ==
    IF MissingFields(x) # {}
    THEN [signal |-> "SIDEWAYS", suggested_option |-> None]
    ELSE LET bullStack == x.emaFast[1] > x.emaMid[1] /\ x.emaMid[1] > x.emaSlow[1]
             bearStack == x.emaFast[1] < x.emaMid[1] /\ x.emaMid[1] < x.emaSlow[1]
             dispSlope == x.disparity[1] - x.prevDisparity[1]
             volSpike == /\ x.avgVolume[1] > 0
                         /\ x.volume[1] * 10 >= x.avgVolume[1] * x.volMultiplier[1]
         IN IF /\ trend = "BULLISH" /\ ema_signal = "BUY" /\ bullStack
               /\ dispSlope > 0 /\ volSpike /\ PcrWithin(pcr, 95, 130)
            THEN [signal |-> "BUY", suggested_option |-> Some("CALL")]
            ELSE IF /\ trend = "BEARISH" /\ ema_signal = "SELL" /\ bearStack
                    /\ dispSlope < 0 /\ volSpike /\ PcrWithin(pcr, 70, 105)
            THEN [signal |-> "SELL", suggested_option |-> Some("PUT")]
            ELSE [signal |-> "SIDEWAYS", suggested_option |-> None]

(* C18: with the strategy configured for scalp mode the signal engine      *)
(* decides BUY/CALL if and only if trend is BULLISH, emaSignal is BUY,     *)
(* emaFast > emaMid > emaSlow, disparity - prevDisparity > 0, avgVolume >  *)
(* 0 with volume >= avgVolume x volMultiplier and 0.95 <= pcr <= 1.30,     *)
(* SELL/PUT on the mirrored bearish conditions with 0.70 <= pcr <= 1.05,   *)
(* and SIDEWAYS otherwise, also when a numeric scalp input is absent.      *)
C18_ScalpMode ==
    (HasReturned("determine_signal") /\ Call.config[1].mode = "scalp") =>
        Value = ScalpDecision(Call.pcr[1], Call.trend[1], Call.ema_signal[1],
                              Call.config[1].scalp[1])

\* the other symbol
Other(s) == CHOOSE o \in SymbolSet : o # s

\* a dedup record without the keys of symbol s
WithoutKeys(logged, s) == [k \in (DOMAIN logged) \ KeysOf(logged, s) |-> logged[k]]

(* C19: the ledger is partitioned by symbol.  What a pass does to the      *)
(* entries of symbol A depends on A's snapshot and A's entries only: they  *)
(* come out as from a pass over a ledger that holds nothing of the other   *)
(* symbol B (no snapshot, no entries, no dedup keys of B), whatever B's    *)
(* snapshot and entries are in the state; and a pass that has no snapshot  *)
(* of B leaves the entries of B as they were.  Stated of the pass run from *)
(* any reachable state.                                                    *)
C19_PartitionedBySymbol ==
    \A a \in SymbolSet :
        LET b == Other(a)
            withoutB == [data_cache EXCEPT ![b] = None]
            pass == TradingPass(trade_log, last_logged_signal, data_cache,
                                TRUE, MaxLot, now)
            alone == TradingPass(OfSymbol(trade_log, a),
                                 WithoutKeys(last_logged_signal, b), withoutB,
                                 TRUE, MaxLot, now)
            blind == TradingPass(trade_log, last_logged_signal, withoutB,
                                 TRUE, MaxLot, now)
        IN /\ OfSymbol(pass.log, a) = alone.log
           /\ OfSymbol(blind.log, a) = alone.log
           /\ OfSymbol(blind.log, b) = OfSymbol(trade_log, b)

\* one pass over two different snapshots has updated the Active entry of one
\* symbol, which shows a gain or a loss, and closed the other symbol's entry
C19_Witness ==
    /\ paper_trading_on
    /\ \E i, j \in Entries :
          LET e == trade_log[i]
              f == trade_log[j]
          IN /\ f.Symbol = Other(e.Symbol)
             /\ Available(e.Symbol) /\ Available(f.Symbol)
             /\ Info(e.Symbol).signal # Info(f.Symbol).signal
             /\ IsActive(e) /\ e.PnL # 0
             /\ IsClosed(f) /\ f.Exit_Time = Some(now) /\ f.Timestamp < now

(* C20: with the trend derived as BULLISH iff pcrUsed >= 1, pcrUsed being  *)
(* the near-expiry PCR when useNearPcr is set and the total PCR otherwise, *)
(* the engine signal a symbol's block stores is BUY iff emaSignal is BUY   *)
(* and pcrUsed >= 1, SELL iff emaSignal is SELL and pcrUsed < 1, and       *)
(* SIDEWAYS otherwise: pcrUsed = 1 with emaSignal SELL gives SIDEWAYS, and *)
(* the signal never opposes the configured EMA signal.                     *)
C20_SignalFromPcrAndEma ==
    (HasReturned("symbol_block") /\ Value # None) =>
        LET stored == CacheEntry(Value[1], now)
            pcrUsed == IF Call.use_near_pcr = Some(TRUE)
                       THEN stored.pcr_near ELSE stored.pcr_total
            ema == Call.ema_signal[1]
        IN /\ stored.trend = (IF AtLeastOne(pcrUsed) THEN "BULLISH" ELSE "BEARISH")
           /\ stored.signal = "BUY" <=> (ema = "BUY" /\ AtLeastOne(pcrUsed))
           /\ stored.signal = "SELL" <=> (ema = "SELL" /\ ~AtLeastOne(pcrUsed))
           /\ stored.signal \in {"BUY", "SELL", "SIDEWAYS"}
           /\ (pcrUsed = [num |-> 1, den |-> 1] /\ ema = "SELL")
                 => stored.signal = "SIDEWAYS"
           /\ stored.signal \in {ema, "SIDEWAYS"}

\* a chain whose near-expiry PCR is exactly 1 while its total PCR is below 1,
\* read with useNearPcr set and emaSignal SELL: the signal is SIDEWAYS,
\* where the total PCR would have given SELL
C20_Witness ==
    /\ HasReturned("symbol_block") /\ Value # None
    /\ Call.use_near_pcr = Some(TRUE) /\ Call.ema_signal = Some("SELL")
    /\ Value[1].pcr_near = [num |-> 1, den |-> 1]
    /\ ~AtLeastOne(Value[1].pcr_total)
    /\ Value[1].trend = "BULLISH" /\ Value[1].signal = "SIDEWAYS"

\* the entries a step has appended to the trade log
Appended == (Len(trade_log) + 1)..Len(trade_log')

(* C21: no entry is opened and closed within the same pass.  Every entry   *)
(* a run of main() appends to the trade log, one opened on BREACH_UP or    *)
(* BREACH_DOWN included, is still Active when that run ends, so an entry's *)
(* close happens in a later pass than its open.                            *)
C21_OpenedStaysActive ==
    [][\A i \in Appended : trade_log'[i].Status = "Active"]_vars

\* a step that re-runs main() with paper trading on over the snapshots the
\* previous run, also with paper trading on, has left in the cache
RerunOnSameSnapshots ==
    /\ paper_trading_on /\ paper_trading_on'
    /\ data_cache' = data_cache
    /\ last_update_time' = last_update_time

(* C22: the ledger pass is idempotent on an unchanged snapshot.  A second  *)
(* pass over the same cached snapshots, a re-run inside the refresh window *)
(* with the same settings, leaves the trade log and the dedup record       *)
(* exactly as the first pass left them: no entry is added, closed or       *)
(* changed, also when the first pass closed a trade on an opposing signal. *)
C22_PassIsIdempotent ==
    [][RerunOnSameSnapshots =>
          trade_log' = trade_log /\ last_logged_signal' = last_logged_signal]_vars

(* C23: while paper trading is toggled off, a run of main() changes        *)
(* neither the trade log nor the dedup record, although the snapshots go   *)
(* on being refreshed: no entry is opened, updated or closed, and an       *)
(* Active entry keeps its Current Price and live P&L until a run with the  *)
(* toggle on.                                                              *)
C23_ToggleOffFreezesLedger ==
    [][~paper_trading_on' =>
          trade_log' = trade_log /\ last_logged_signal' = last_logged_signal]_vars

\* a run with the toggle off has just refreshed the snapshots, and an Active
\* entry that shows a gain or a loss still carries the price of an earlier
\* snapshot, not the refreshed one
C23_Witness ==
    /\ ~paper_trading_on
    /\ last_update_time = now
    /\ \E i \in Entries :
          LET e == trade_log[i]
          IN /\ IsActive(e) /\ e.PnL # 0
             /\ Available(e.Symbol)
             /\ Info(e.Symbol).last_update = now
             /\ Info(e.Symbol).underlying # e.Current_Price

\* the call of fetch_option_chain_from_api in progress or finished
Fetch == frame[1]
FetchDone == result # None

\* the response of attempt k let the call go on to another attempt
Retried(k) == Fetch.responses[k] = 401 /\ k < Fetch.retries

\* attempt k was made after a re-initialised session: the calls up to it are
\* k-1 rounds of get, init_session, sleep
SessionRenewedBefore(k) ==
    k > 1 => /\ Fetch.calls[3 * (k - 1) - 1] = "init_session"
             /\ Fetch.calls[3 * (k - 1) - 2] = "get"

\* the HTTP attempts made so far are the "get" calls
AttemptsAreGets ==
    Len(Fetch.responses) = Cardinality({k \in DOMAIN Fetch.calls : Fetch.calls[k] = "get"})

(* C24: fetch_option_chain_from_api always terminates after at most        *)
(* `retries` HTTP attempts.  It returns the parsed data of the first       *)
(* successful attempt; it makes a further attempt only after an HTTP 401   *)
(* on a non-final attempt, and re-initialises the session before that      *)
(* attempt; it raises on any other request error and on a 401 at the final *)
(* attempt; and it returns None only when retries is 0.                    *)
C24_FetchTerminates ==
    /\ <>FetchDone
    /\ [](LET n == Len(Fetch.responses)
          IN /\ AttemptsAreGets
             /\ n <= Fetch.retries
             /\ \A k \in 1..n : /\ k < n => Retried(k)
                                /\ SessionRenewedBefore(k)
             /\ FetchDone =>
                   LET last == IF n = 0 THEN 0 ELSE Fetch.responses[n]
                   IN /\ (n > 0 /\ last = 200) <=>
                            (~result[1].raised /\ result[1].data # None)
                      /\ (n > 0 /\ last # 200 /\ ~Retried(n)) <=> result[1].raised
                      /\ result[1] = ReturnedNone <=> Fetch.retries = 0
                      /\ result[1] = ReturnedNone => n = 0)

\* the call was given three attempts: two were answered 401, each followed by
\* init_session and a sleep (1 + 2 seconds), and the third returned the data
C24_Witness ==
    /\ frame # None /\ Fetch.fn = "fetch_option_chain_from_api"
    /\ FetchDone /\ Fetch.retries = 3
    /\ Fetch.responses = <<401, 401, 200>>
    /\ Fetch.calls = <<"get", "init_session", "sleep",
                       "get", "init_session", "sleep", "get">>
    /\ Fetch.slept = 3
    /\ result[1] \in {Returned(j) : j \in GoodJsons}

====
